---- MODULE Spec2Model ----
(***************************************************************************)
(* TELOS MCP server (src/telos-mcp/telos_mcp_server.py).                   *)
(*                                                                         *)
(* The model follows one request at a time through mcp_endpoint and the    *)
(* coroutine load_telos_context it awaits.  Python values are tagged       *)
(* records ([t |-> "str", v |-> ...], [t |-> "dict", ...], None), so that  *)
(* a null, an absent key and a value of the wrong type stay distinct.      *)
(* Text is TLA+ strings; slicing and f-string interpolation are computed   *)
(* with SubSeq and \o.                                                     *)
(***************************************************************************)
EXTENDS Integers, Sequences, FiniteSets, TLC

VARIABLES pc, served, request, github_token, remote, localFile,
          io, loadStatus, retLine, context, outcome, resp, exc

vars == <<pc, served, request, github_token, remote, localFile,
          io, loadStatus, retLine, context, outcome, resp, exc>>

envVars == <<github_token, remote, localFile>>

(***************************************************************************)
(* Bounds                                                                  *)
(***************************************************************************)
MaxRequests == 2

(***************************************************************************)
(* Python values                                                           *)
(***************************************************************************)
None == [t |-> "None"]

Absent == [t |-> "absent"]

Str(s) == [t |-> "str", v |-> s]

PyList == [t |-> "list"]

Dict(c) == [t |-> "dict", content |-> c]

NoValue == [t |-> "unset"]

\* dict.get(key, default) on a mapping whose key holds v (Absent: no such key)
DictGet(v, default) == IF v = Absent THEN default ELSE v

\* str(x) as the f-string applies it to an interpolated value
Format(x) == IF x.t = "str" THEN x.v ELSE "None"

RECURSIVE Repeat(_, _)
Repeat(s, n) == IF n = 0 THEN "" ELSE s \o Repeat(s, n - 1)

\* s[:n]
SliceTo(s, n) == IF Len(s) <= n THEN s ELSE SubSeq(s, 1, n)

\* t in s
Contains(s, t) ==
    \E i \in 0..(Len(s) - Len(t)) : SubSeq(s, i + 1, i + Len(t)) = t

RECURSIVE Count(_, _)
Count(seq, e) ==
    IF seq = <<>> THEN 0
    ELSE (IF Head(seq) = e THEN 1 ELSE 0) + Count(Tail(seq), e)

(***************************************************************************)
(* Program constants                                                       *)
(***************************************************************************)
Placeholder ==
    "# TELOS Context\nNo personal context loaded. Please set up your TELOS file."

SliceLen == 200

MethodNotFound == -32601

TemplateHead ==
    "\n            TELOS-Filtered Analysis:\n            \n            Personal Context Applied: "

TemplateMid == "...\n            \n            Content Analysis: "

TemplateTail ==
    "\n            \n            Alignment Assessment: [This would contain AI-generated alignment analysis]\n            "

\* mutant: the two descriptors in the other order
ToolsList_Swapped ==
    [t |-> "dict",
     tools |-> << [name |-> "apply_telos_filter",
                   description |-> "Apply TELOS context to evaluate alignment with personal mission"],
                  [name |-> "load_telos_context",
                   description |-> "Load personal TELOS context for decision filtering"] >>]

ToolsList ==
    [t |-> "dict",
     tools |-> << [name |-> "load_telos_context",
                   description |-> "Load personal TELOS context for decision filtering"],
                  [name |-> "apply_telos_filter",
                   description |-> "Apply TELOS context to evaluate alignment with personal mission"] >>]

MCPResponse(result, error) == [t |-> "MCPResponse", result |-> result, error |-> error]

(***************************************************************************)
(* Inputs: the requests a client can post and the environments the server  *)
(* can run in                                                              *)
(***************************************************************************)
LoadTool == "load_telos_context"

FilterTool == "apply_telos_filter"

Methods == {"tools/list", "tools/call", "unknown/x", ""}

Names == {Absent, None, Str(LoadTool), Str(FilterTool), Str("no_such_tool")}

Contents == {Absent, None, Str(""), Str("Should I take the job?")}

Arguments == {Absent, None, PyList} \cup {Dict(c) : c \in Contents}

\* MCPRequest: method: str, params: Dict[str, Any] = {}
MCPRequest == [method : Methods, params : [name : Names, arguments : Arguments]]

NoRequest == [method |-> "", params |-> [name |-> Absent, arguments |-> Absent]]

\* os.getenv("GITHUB_TOKEN"): unset, set to the empty string, or set
Tokens == {None, Str(""), Str("ghp_token")}

LongRemote == "R:" \o Repeat("abcdefghij", 20) \o "-remote-beyond-200"

LongLocal == "L:" \o Repeat("0123456789", 20) \o "-local-beyond-200"

ExactLocal == Repeat("0123456789", 20)

\* the content field of the GitHub contents API: base64 of the file
B64(valid, utf8, text) == [t |-> "b64", valid |-> valid, utf8 |-> utf8, text |-> text]

NetworkError == [net |-> "error"]

HttpResponse(status, json, content) ==
    [net |-> "ok", status_code |-> status, json |-> json, content |-> content]

Remotes ==
    { NetworkError,
      HttpResponse(404, TRUE, Absent),
      HttpResponse(204, FALSE, Absent),
      HttpResponse(200, FALSE, Absent),
      HttpResponse(200, TRUE, Absent),
      HttpResponse(200, TRUE, None),
      HttpResponse(200, TRUE, B64(FALSE, TRUE, "")),
      HttpResponse(200, TRUE, B64(TRUE, FALSE, "")),
      HttpResponse(200, TRUE, B64(TRUE, TRUE, "# remote telos")),
      HttpResponse(200, TRUE, B64(TRUE, TRUE, LongRemote)) }

\* /app/context/telos.md
File(exists, readable, utf8, text) ==
    [exists |-> exists, readable |-> readable, utf8 |-> utf8, text |-> text]

LocalFiles ==
    { File(FALSE, FALSE, FALSE, ""),
      File(TRUE, FALSE, TRUE, "secret"),
      File(TRUE, TRUE, FALSE, ""),
      File(TRUE, TRUE, TRUE, ""),
      File(TRUE, TRUE, TRUE, "# local telos"),
      File(TRUE, TRUE, TRUE, ExactLocal),
      File(TRUE, TRUE, TRUE, LongLocal) }

(***************************************************************************)
(* load_telos_context                                                      *)
(***************************************************************************)
\* mutant: any token that is set counts, the empty string too
Truthy_AnySet(tok) == tok.t = "str"

\* `if github_token:`
Truthy(tok) == tok.t = "str" /\ tok.v # ""

\* The body of the try block, lines 30-41: what the GET and the decoding of
\* its answer come to.
GitHubFetch(r) ==
    IF r.net = "error" THEN [kind |-> "except", v |-> ""]
    ELSE IF r.status_code # 200 THEN [kind |-> "fallthrough", v |-> ""]
    ELSE IF ~r.json THEN [kind |-> "except", v |-> ""]
    ELSE IF r.content.t # "b64" THEN [kind |-> "except", v |-> ""]
    ELSE IF ~r.content.valid \/ ~r.content.utf8 THEN [kind |-> "except", v |-> ""]
    ELSE [kind |-> "return", v |-> r.content.text]

\* mutant: a missing file reads as the empty document
ReadLocal_EmptyOnMissing(f) ==
    IF ~f.exists THEN [kind |-> "return", v |-> "", line |-> 48]
    ELSE IF ~f.readable THEN [kind |-> "raise", v |-> "PermissionError", line |-> 45]
    ELSE IF ~f.utf8 THEN [kind |-> "raise", v |-> "UnicodeDecodeError", line |-> 46]
    ELSE [kind |-> "return", v |-> f.text, line |-> 46]

\* The try block of lines 44-48.
ReadLocal(f) ==
    IF ~f.exists THEN [kind |-> "return", v |-> Placeholder, line |-> 48]
    ELSE IF ~f.readable THEN [kind |-> "raise", v |-> "PermissionError", line |-> 45]
    ELSE IF ~f.utf8 THEN [kind |-> "raise", v |-> "UnicodeDecodeError", line |-> 46]
    ELSE [kind |-> "return", v |-> f.text, line |-> 46]

\* lines 24-27
LoadEnv ==
    /\ pc = "load_env"
    /\ pc' = IF Truthy(github_token) THEN "remote" ELSE "local"
    /\ UNCHANGED <<served, request, envVars, io, loadStatus, retLine, context,
                   outcome, resp, exc>>

\* mutant: a GET that throws is tried a second time before giving up
RemoteFetch_Retry ==
    /\ pc = "remote"
    /\ LET r == GitHubFetch(remote) IN
         /\ io' = IF r.kind = "except"
                    THEN io \o <<"http_get", "http_get", "print">>
                    ELSE Append(io, "http_get")
         /\ IF r.kind = "return"
              THEN /\ context' = Str(r.v)
                   /\ loadStatus' = "returned"
                   /\ retLine' = 39
                   /\ pc' = "loaded"
              ELSE /\ pc' = "local"
                   /\ UNCHANGED <<context, loadStatus, retLine>>
    /\ UNCHANGED <<served, request, envVars, outcome, resp, exc>>

\* lines 29-41
RemoteFetch ==
    /\ pc = "remote"
    /\ LET r == GitHubFetch(remote) IN
         /\ io' = IF r.kind = "except"
                    THEN io \o <<"http_get", "print">>
                    ELSE Append(io, "http_get")
         /\ IF r.kind = "return"
              THEN /\ context' = Str(r.v)
                   /\ loadStatus' = "returned"
                   /\ retLine' = 39
                   /\ pc' = "loaded"
              ELSE /\ pc' = "local"
                   /\ UNCHANGED <<context, loadStatus, retLine>>
    /\ UNCHANGED <<served, request, envVars, outcome, resp, exc>>

\* lines 44-48; an exception other than FileNotFoundError leaves the
\* coroutine and then mcp_endpoint, which awaits it outside any try.
LocalRead ==
    /\ pc = "local"
    /\ io' = Append(io, "open")
    /\ LET r == ReadLocal(localFile) IN
         IF r.kind = "return"
           THEN /\ context' = Str(r.v)
                /\ loadStatus' = "returned"
                /\ retLine' = r.line
                /\ pc' = "loaded"
                /\ UNCHANGED <<outcome, exc>>
           ELSE /\ loadStatus' = "raised"
                /\ exc' = r.v
                /\ outcome' = "raised"
                /\ pc' = "done"
                /\ UNCHANGED <<context, retLine>>
    /\ UNCHANGED <<served, request, envVars, resp>>

(***************************************************************************)
(* mcp_endpoint                                                            *)
(***************************************************************************)
\* request.params.get("name")
ToolName(req) == DictGet(req.params.name, None)

\* request.params.get("arguments", {})
ArgumentsOf(req) == DictGet(req.params.arguments, Dict(Absent))

\* mutant: any tool name given as a string is dispatched
KnownTool_AnyName(name) == name.t = "str"

KnownTool(name) == name = Str(LoadTool) \/ name = Str(FilterTool)

\* mutant: the message does not name the method
ErrorBody_NoMethod(method) ==
    [t |-> "dict", code |-> MethodNotFound, message |-> "Method not found"]

\* line 113
ErrorBody(method) ==
    [t |-> "dict", code |-> MethodNotFound,
     message |-> "Method " \o method \o " not found"]

\* lines 100-108
FilteredResponse(ctx, content) ==
    TemplateHead \o SliceTo(ctx, SliceLen) \o TemplateMid \o Format(content)
        \o TemplateTail

\* a request arrives; pydantic has validated it into an MCPRequest
Receive ==
    /\ pc = "idle"
    /\ served < MaxRequests
    /\ \E r \in MCPRequest : request' = r
    /\ served' = served + 1
    /\ pc' = "dispatch"
    /\ UNCHANGED <<envVars, io, loadStatus, retLine, context, outcome, resp, exc>>

\* lines 57-96 and 112-113: the branch on method and tool name, up to the
\* first await
Dispatch ==
    /\ pc = "dispatch"
    /\ IF request.method = "tools/list"
         THEN /\ resp' = MCPResponse(ToolsList, None)
              /\ outcome' = "returned"
              /\ pc' = "done"
              /\ UNCHANGED loadStatus
         ELSE IF request.method = "tools/call"
         THEN IF KnownTool(ToolName(request))
                THEN /\ pc' = "load_env"
                     /\ loadStatus' = "running"
                     /\ UNCHANGED <<resp, outcome>>
                ELSE /\ resp' = None
                     /\ outcome' = "returned"
                     /\ pc' = "done"
                     /\ UNCHANGED loadStatus
         ELSE /\ resp' = MCPResponse(None, ErrorBody(request.method))
              /\ outcome' = "returned"
              /\ pc' = "done"
              /\ UNCHANGED loadStatus
    /\ UNCHANGED <<served, request, envVars, io, retLine, context, exc>>

\* lines 93 and 97-110: the rest of the handler once the context is loaded
Complete ==
    /\ pc = "loaded"
    /\ pc' = "done"
    /\ IF ToolName(request) = Str(LoadTool)
         THEN /\ resp' = MCPResponse([t |-> "dict", content |-> context], None)
              /\ outcome' = "returned"
              /\ UNCHANGED exc
         ELSE LET arguments == ArgumentsOf(request) IN
              IF arguments.t # "dict"
                THEN /\ exc' = "AttributeError"
                     /\ outcome' = "raised"
                     /\ UNCHANGED resp
                ELSE /\ resp' = MCPResponse(
                          [t |-> "dict",
                           filtered_content |->
                               Str(FilteredResponse(context.v,
                                       DictGet(arguments.content, Str(""))))],
                          None)
                     /\ outcome' = "returned"
                     /\ UNCHANGED exc
    /\ UNCHANGED <<served, request, envVars, io, loadStatus, retLine, context>>

\* The framework sends what the handler returned (or a 500 for what it
\* raised) and the request is over: nothing of it is kept.
Reply ==
    /\ pc = "done"
    /\ pc' = "idle"
    /\ request' = NoRequest
    /\ io' = <<>>
    /\ loadStatus' = "not_called"
    /\ retLine' = 0
    /\ context' = NoValue
    /\ outcome' = "pending"
    /\ resp' = NoValue
    /\ exc' = "none"
    /\ UNCHANGED <<served, envVars>>

(***************************************************************************)
(* The environment: between requests the operator may change the token,    *)
(* the remote repository may answer differently or the local file may be   *)
(* replaced, one at a time.  The server never does any of this itself.     *)
(***************************************************************************)
EnvChange ==
    /\ pc = "idle"
    /\ \/ github_token' \in Tokens /\ UNCHANGED <<remote, localFile>>
       \/ remote' \in Remotes /\ UNCHANGED <<github_token, localFile>>
       \/ localFile' \in LocalFiles /\ UNCHANGED <<github_token, remote>>
    /\ UNCHANGED <<pc, served, request, io, loadStatus, retLine, context,
                   outcome, resp, exc>>

Init ==
    /\ pc = "idle"
    /\ served = 0
    /\ request = NoRequest
    /\ github_token \in Tokens
    /\ remote \in Remotes
    /\ localFile \in LocalFiles
    /\ io = <<>>
    /\ loadStatus = "not_called"
    /\ retLine = 0
    /\ context = NoValue
    /\ outcome = "pending"
    /\ resp = NoValue
    /\ exc = "none"

Next ==
    \/ Receive
    \/ Dispatch
    \/ LoadEnv
    \/ RemoteFetch
    \/ LocalRead
    \/ Complete
    \/ Reply
    \/ EnvChange

Spec == Init /\ [][Next]_vars

(***************************************************************************)
(* What the environment holds, read off the environment alone              *)
(***************************************************************************)
\* the token is set and not empty
CredentialPresent == github_token \notin {None, Str("")}

\* the remote answers 200 with a JSON body whose content field is valid
\* base64 of valid UTF-8
RemoteDecodes ==
    /\ remote.net = "ok"
    /\ remote.status_code = 200
    /\ remote.json
    /\ remote.content.t = "b64"
    /\ remote.content.valid
    /\ remote.content.utf8

\* the GET fails, or its 200 answer does not decode
RemoteThrows ==
    \/ remote.net = "error"
    \/ remote.status_code = 200 /\ ~RemoteDecodes

LoadFinished == loadStatus \in {"returned", "raised"}

ToolInvocation ==
    /\ request.method = "tools/call"
    /\ request.params.name \in {Str(LoadTool), Str(FilterTool)}

(***************************************************************************)
(* C1: load_telos_context is total: whatever the credential, the remote    *)
(* outcome and the state of the local file, it returns a string and never  *)
(* lets an exception reach its caller.                                     *)
(* Violated: a local file that exists but cannot be opened or decoded      *)
(* raises PermissionError / UnicodeDecodeError, which line 47 does not     *)
(* catch.                                                                  *)
(***************************************************************************)
C1_LoadTotal ==
    /\ loadStatus # "raised"
    /\ loadStatus = "returned" => context.t = "str"

(***************************************************************************)
(* C2: every Response returned by POST /mcp has exactly one of result and  *)
(* error populated.                                                        *)
(* Violated: tools/call with an unknown tool name falls off the end of the *)
(* handler, which returns None.                                            *)
(***************************************************************************)
C2_ExactlyOne ==
    outcome = "returned" =>
        /\ resp.t = "MCPResponse"
        /\ (resp.result # None) # (resp.error # None)

(***************************************************************************)
(* C3: the handler completes every request with a response and does not    *)
(* raise, also when params.arguments is absent, null or not a mapping and  *)
(* when the context load fails.                                            *)
(* Violated: apply_telos_filter with arguments null or a list raises       *)
(* AttributeError at line 97; an unreadable local file raises at line 45.  *)
(***************************************************************************)
C3_NoRaise ==
    pc = "done" => outcome = "returned" /\ exc = "none"

(***************************************************************************)
(* C4 as stated: the remote fetch is attempted iff a credential is         *)
(* present; a successful fetch is returned without reading the local file; *)
(* on ANY failure of the remote step (network error, non-2xx status,       *)
(* decode failure, missing credential) the failure is logged and the local *)
(* file is read next; the placeholder is returned only after the local     *)
(* file was found absent.                                                  *)
(* Violated: nothing is logged for a missing credential or for a non-200   *)
(* status; only the except clause of line 40 prints.                       *)
(***************************************************************************)
C4_LoggedOnAnyFailure ==
    LoadFinished =>
        /\ ("http_get" \in {io[i] : i \in DOMAIN io}) <=> CredentialPresent
        /\ (CredentialPresent /\ RemoteDecodes) =>
               /\ retLine = 39
               /\ context = Str(remote.content.text)
               /\ "open" \notin {io[i] : i \in DOMAIN io}
        /\ (\/ ~CredentialPresent
            \/ remote.net = "error"
            \/ remote.status_code \notin 200..299
            \/ remote.status_code = 200 /\ ~RemoteDecodes) =>
               \E i \in DOMAIN io : \E j \in DOMAIN io :
                   i < j /\ io[i] = "print" /\ io[j] = "open"
        /\ retLine = 48 =>
               /\ ~localFile.exists
               /\ io[Len(io)] = "open"
               /\ context = Str(Placeholder)

(***************************************************************************)
(* C4 as amended: the remote fetch is attempted iff a non-empty credential *)
(* is present; a successful fetch (status 200, content decodes) is         *)
(* returned without reading the local file; when the GET or the decoding   *)
(* throws, the failure is logged and the local file is read next; on a     *)
(* status other than 200 or a missing credential nothing is logged and the *)
(* local file is read next; the placeholder is returned only after the     *)
(* local file was found absent.                                            *)
(***************************************************************************)
C4_FallbackChain ==
    LoadFinished =>
        /\ CredentialPresent /\ RemoteDecodes =>
               /\ io = <<"http_get">>
               /\ retLine = 39
               /\ context = Str(remote.content.text)
        /\ CredentialPresent /\ RemoteThrows =>
               io = <<"http_get", "print", "open">>
        /\ CredentialPresent /\ ~RemoteDecodes /\ ~RemoteThrows =>
               io = <<"http_get", "open">>
        /\ ~CredentialPresent => io = <<"open">>
        /\ retLine = 48 =>
               /\ ~localFile.exists
               /\ io[Len(io)] = "open"
               /\ context = Str(Placeholder)
        /\ (loadStatus = "returned" /\ "open" \in {io[i] : i \in DOMAIN io}) =>
               IF localFile.exists
                 THEN retLine = 46 /\ context = Str(localFile.text)
                 ELSE retLine = 48

\* a failed decode was logged, the local file was absent, the placeholder
\* came back
C4_Witness ==
    /\ loadStatus = "returned"
    /\ io = <<"http_get", "print", "open">>
    /\ retLine = 48
    /\ remote.net = "ok"

(***************************************************************************)
(* C5: a request whose method is neither tools/list nor tools/call (the    *)
(* empty string included) is answered with result null and error           *)
(* {code: -32601, message: "Method <M> not found"}, <M> being the method,  *)
(* and the context is not loaded.                                          *)
(***************************************************************************)
C5_UnknownMethod ==
    (pc = "done" /\ request.method \notin {"tools/list", "tools/call"}) =>
        /\ outcome = "returned"
        /\ resp.t = "MCPResponse"
        /\ resp.result = None
        /\ resp.error.code = -32601
        /\ resp.error.message = "Method " \o request.method \o " not found"
        /\ request.method = "unknown/x" =>
               resp.error.message = "Method unknown/x not found"
        /\ request.method = "" => resp.error.message = "Method  not found"
        /\ loadStatus = "not_called"
        /\ io = <<>>

\* the empty method string was answered
C5_Witness ==
    /\ pc = "done"
    /\ request.method = ""
    /\ resp.t = "MCPResponse"
    /\ resp.error # None

(***************************************************************************)
(* C6: a tools/call whose params.name is neither load_telos_context nor    *)
(* apply_telos_filter (a missing name included) ends with neither result   *)
(* nor error populated, and without any context load: no network call, no  *)
(* file read.  (The handler returns None, which is sent as JSON null.)     *)
(***************************************************************************)
C6_UnknownTool ==
    (/\ pc = "done"
     /\ request.method = "tools/call"
     /\ request.params.name \notin {Str(LoadTool), Str(FilterTool)}) =>
        /\ outcome = "returned"
        /\ \/ resp = None
           \/ resp.t = "MCPResponse" /\ resp.result = None /\ resp.error = None
        /\ loadStatus = "not_called"
        /\ io = <<>>

\* a tools/call without a name came back empty
C6_Witness ==
    /\ pc = "done"
    /\ request.method = "tools/call"
    /\ request.params.name = Absent
    /\ resp = None

(***************************************************************************)
(* C7 as stated: each invocation of load_telos_context or                  *)
(* apply_telos_filter makes one outbound network call, never more, and     *)
(* writes nothing; tools/list and unknown methods make no network call.    *)
(* Violated: without a credential the tool makes no network call at all;   *)
(* stated here of the invocations that return, it already fails.           *)
(***************************************************************************)
C7_OneCallPerInvocation ==
    (pc = "done" /\ outcome = "returned") =>
        /\ Count(io, "http_get") = (IF ToolInvocation THEN 1 ELSE 0)
        /\ \A i \in DOMAIN io : io[i] \in {"http_get", "print", "open"}

(***************************************************************************)
(* C7 as amended: each invocation of load_telos_context or                 *)
(* apply_telos_filter makes at most one outbound network call: exactly one *)
(* when a non-empty credential is configured and none otherwise, with no   *)
(* retry; it writes neither to the filesystem nor to any state a later     *)
(* request sees; tools/list and unknown methods make no network call.      *)
(***************************************************************************)
C7_AtMostOneCall ==
    /\ [](/\ Count(io, "http_get") <= 1
          /\ \A i \in DOMAIN io : io[i] \in {"http_get", "print", "open"}
          /\ pc = "done" =>
                 Count(io, "http_get") =
                     (IF ToolInvocation /\ CredentialPresent THEN 1 ELSE 0)
          /\ pc = "idle" =>
                 /\ io = <<>>
                 /\ context = NoValue
                 /\ resp = NoValue
                 /\ request = NoRequest)
    /\ [][pc # "idle" => envVars' = envVars]_vars

\* a filter call went to the network once, got a non-200 answer and read
\* the local file
C7_Witness ==
    /\ pc = "done"
    /\ request.params.name = Str(FilterTool)
    /\ io = <<"http_get", "open">>
    /\ outcome = "returned"

(***************************************************************************)
(* C8: tools/list, whatever the params and the environment, is answered    *)
(* with error null and a result whose tools list holds exactly two         *)
(* descriptors, load_telos_context then apply_telos_filter, without any    *)
(* I/O.                                                                    *)
(***************************************************************************)
C8_ToolsList ==
    (pc = "done" /\ request.method = "tools/list") =>
        /\ outcome = "returned"
        /\ resp.t = "MCPResponse"
        /\ resp.error = None
        /\ Len(resp.result.tools) = 2
        /\ resp.result.tools[1].name = "load_telos_context"
        /\ resp.result.tools[2].name = "apply_telos_filter"
        /\ loadStatus = "not_called"
        /\ io = <<>>

\* tools/list answered although the params name a tool and a credential is
\* configured
C8_Witness ==
    /\ pc = "done"
    /\ request.method = "tools/list"
    /\ request.params.name = Str(FilterTool)
    /\ CredentialPresent
    /\ resp.t = "MCPResponse"

(***************************************************************************)
(* C9: every tools/call of apply_telos_filter is answered with error null  *)
(* and a filtered_content that holds the caller's arguments.content        *)
(* verbatim (the empty string when absent) and, in the context slot,       *)
(* exactly the first 200 characters of what load_telos_context returned.   *)
(* Violated: when arguments is null or not a mapping line 97 raises, and   *)
(* when the load raises (C1) there is no answer at all.                    *)
(***************************************************************************)
C9_FilterOutput ==
    (/\ pc = "done"
     /\ request.method = "tools/call"
     /\ request.params.name = Str(FilterTool)) =>
        /\ outcome = "returned"
        /\ resp.t = "MCPResponse"
        /\ resp.error = None
        /\ LET out == resp.result.filtered_content.v
               ctx == context.v
               a == request.params.arguments
               supplied == IF a.t = "dict" /\ a.content.t = "str"
                             THEN a.content.v ELSE ""
               slot == IF Len(ctx) <= 200 THEN ctx ELSE SubSeq(ctx, 1, 200)
           IN /\ Contains(out, supplied)
              /\ Contains(out, "Personal Context Applied: " \o slot \o "...")
              /\ Len(out) = Len(TemplateHead) + Len(slot) + Len(TemplateMid)
                              + Len(Format(DictGet(ArgumentsOf(request).content, Str(""))))
                              + Len(TemplateTail)

(***************************************************************************)
(* C10: without a credential and without the local file,                   *)
(* load_telos_context returns exactly the placeholder, and a tools/call of *)
(* load_telos_context is answered with result {content: <placeholder>} and *)
(* error null.                                                             *)
(***************************************************************************)
C10_Placeholder ==
    (~CredentialPresent /\ ~localFile.exists) =>
        /\ LoadFinished =>
               /\ loadStatus = "returned"
               /\ context = Str("# TELOS Context\nNo personal context loaded. Please set up your TELOS file.")
        /\ (pc = "done" /\ request.method = "tools/call"
                /\ request.params.name = Str(LoadTool)) =>
               /\ outcome = "returned"
               /\ resp.t = "MCPResponse"
               /\ resp.error = None
               /\ resp.result =
                      [t |-> "dict",
                       content |-> Str("# TELOS Context\nNo personal context loaded. Please set up your TELOS file.")]

\* the scenario of the spec: load_telos_context, token unset, no local file
C10_Witness ==
    /\ pc = "done"
    /\ request.method = "tools/call"
    /\ request.params.name = Str(LoadTool)
    /\ github_token = None
    /\ ~localFile.exists
    /\ resp.t = "MCPResponse"
    /\ resp.result.content.v = Placeholder

====
